---- MODULE Spec2Model ----
(***************************************************************************)
(* Model of the Zomato spend analyzer: the Order dataclass, the Order      *)
(* Assembler (ZomatoEmailParser.extract_order), the SQLite order table     *)
(* (OrderDatabase), the watermark file (read_last_sync / write_last_sync)  *)
(* and the incremental import controller (incremental_import).             *)
(*                                                                         *)
(* Conventions                                                             *)
(*  - Python's None is the empty tuple <<>>, a present value x is <<x>>.   *)
(*  - A datetime is [wall, aware, off]: the wall-clock reading counted in  *)
(*    half hours, whether tzinfo is set, and the UTC offset in half hours  *)
(*    (0 when naive).  The instant of an aware datetime is wall - off.     *)
(*  - Money is counted in paise (integers).                                *)
(*  - A regular expression search is an input: an email carries, for each  *)
(*    pattern of the parser, what the pattern captures (or None).  What    *)
(*    the code does with the captures is modelled step by step.            *)
(***************************************************************************)
EXTENDS Integers, Sequences, FiniteSets, TLC

VARIABLES
    rows,       \* the orders table: a set of row records
    syncFile,   \* data/last_sync.txt: None (missing) or <<text>>
    archive,    \* the MBOX archive: a sequence of emails, in archive order
    last,       \* what the latest operation was given, saw and returned
    prev,       \* the operation before it, when both are runs of
                \* incremental_import and it returned
    input,      \* SpecExtract: the arguments handed to extract_order;
                \* SpecTime: the datetime handed over;
                \* SpecText: the raw body, a sequence of characters
    output      \* SpecExtract: what extract_order did with them;
                \* SpecTime: what the latest call did;
                \* SpecText: the latest step and the text it left

vars == <<rows, syncFile, archive, last, prev, input, output>>

(***************************************************************************)
(* Python values                                                           *)
(***************************************************************************)
None == <<>>
Some(x) == <<x>>
Val(o) == o[1]

Returned(v) == [kind |-> "return", val |-> v, exc |-> "none"]
Raised(e) == [kind |-> "raise", val |-> None, exc |-> e]

\* The exception classes the modelled code can raise; all derive from Exception.
ExceptionClasses == {"TypeError", "ValueError", "AttributeError"}

Min(a, b) == IF a <= b THEN a ELSE b

(***************************************************************************)
(* datetime                                                                *)
(***************************************************************************)
\* Half hours in a (non-leap) year: year arithmetic of datetime.replace(year=..).
HalfHoursPerYear == 365 * 48

\* timezone(timedelta(hours=5, minutes=30)), in half hours.
IST == 11
\* timezone.utc
UTC == 0

Naive(w) == [wall |-> w, aware |-> FALSE, off |-> 0]
Aware(w, o) == [wall |-> w, aware |-> TRUE, off |-> o]

\* dt.replace(tzinfo=tz): the wall-clock reading is kept.
ReplaceTz(dt, tz) == [wall |-> dt.wall, aware |-> TRUE, off |-> tz]

\* dt.astimezone(tz) of an aware datetime: the instant is kept.
AsTimezone(dt, tz) == [wall |-> dt.wall - dt.off + tz, aware |-> TRUE, off |-> tz]

\* The instant an aware datetime denotes (half hours, UTC).
Instant(dt) == dt.wall - dt.off

\* dt.year and dt.replace(year=y)
YearOf(dt) == dt.wall \div HalfHoursPerYear
ReplaceYear(dt, y) ==
    [dt EXCEPT !.wall = y * HalfHoursPerYear + (dt.wall % HalfHoursPerYear)]

\* a <= b and a > b on two aware datetimes compare their instants.
DtLe(a, b) == Instant(a) <= Instant(b)
DtGt(a, b) == Instant(a) > Instant(b)

\* dt.isoformat(): the text keeps the wall-clock reading and, when aware, the
\* offset suffix; datetime.fromisoformat reads both back.
IsoFormat(dt) == [text |-> "iso", wall |-> dt.wall, suffix |-> dt.aware, off |-> dt.off]
FromIsoFormat(t) == [wall |-> t.wall, aware |-> t.suffix, off |-> t.off]

(***************************************************************************)
(* The watermark file (importer.py)                                        *)
(***************************************************************************)
\* read_last_sync: a missing, empty or unparsable file reads as None; an ISO
\* text is read back and brought to UTC (a naive one is taken to be UTC).
ReadLastSync(file) ==
    IF file = None THEN None
    ELSE IF Val(file).text # "iso" THEN None
    ELSE LET dt == FromIsoFormat(Val(file))
         IN  IF ~dt.aware THEN Some(ReplaceTz(dt, UTC))
             ELSE Some(AsTimezone(dt, UTC))

\* A variant of WriteLastSync that labels every datetime UTC, keeping its
\* wall-clock reading.
WriteLastSyncWallClock(dt) == Some(IsoFormat(ReplaceTz(dt, UTC)))

\* write_last_sync: the file holds the ISO text of dt brought to UTC.
WriteLastSync(dt) ==
    IF ~dt.aware THEN Some(IsoFormat(ReplaceTz(dt, UTC)))
    ELSE Some(IsoFormat(AsTimezone(dt, UTC)))

(***************************************************************************)
(* The Order dataclass (models/order.py)                                   *)
(***************************************************************************)
\* A variant of OrderFields whose date field carries the name that
\* extract_order, insert_order and incremental_import use for it.
OrderFieldsOrderDate ==
    {"order_id", "order_date", "restaurant_name", "amount", "delivery_fee",
     "discount", "total_amount", "status", "payment_method",
     "delivery_location", "order_items", "raw_email_body", "email_date"}

\* The fields the dataclass declares, which are the keywords its generated
\* __init__ accepts.
OrderFields ==
    {"order_id", "date", "restaurant_name", "amount", "delivery_fee",
     "discount", "total_amount", "status", "payment_method",
     "delivery_location", "order_items", "raw_email_body", "email_date"}

\* The fields declared with a default, and the defaults.
OrderDefaults ==
    [delivery_fee |-> 0, discount |-> 0, total_amount |-> 0,
     status |-> "completed", payment_method |-> None,
     delivery_location |-> None, order_items |-> None,
     raw_email_body |-> None, email_date |-> None]

\* Order(**kw): TypeError on a keyword that is no field and on a missing
\* field that has no default; otherwise an object whose attributes are the
\* keywords given and the defaults of the others.
OrderInit(kw) ==
    IF ~(DOMAIN kw \subseteq OrderFields) THEN Raised("TypeError")
    ELSE IF ~((OrderFields \ DOMAIN OrderDefaults) \subseteq DOMAIN kw)
    THEN Raised("TypeError")
    ELSE Returned(Some([f \in OrderFields |->
             IF f \in DOMAIN kw THEN kw[f] ELSE OrderDefaults[f]]))

(***************************************************************************)
(* The field extractors (parsers/zomato.py)                                *)
(*                                                                         *)
(* subject = [isStr, zomato, order, idLabel, idLoose, idHash, proPlus,     *)
(*            fromTail]                                                    *)
(*   isStr    the subject is a str (re.search raises TypeError otherwise)  *)
(*   zomato   'zomato' in subject.lower()                                  *)
(*   order    'order' in subject.lower()                                   *)
(*   idLabel  group(1) of ORDER_ID_PATTERN in the subject                  *)
(*   idLoose  group(1) of order\s+#?([A-Z0-9]+) in the subject             *)
(*   idHash   the match of that rule holds the '#'                         *)
(*   proPlus  the cleaned group(1) of pro\s+plus\s+order\s+from\s+(.+)$    *)
(*   fromTail the cleaned group(1) of from\s+([...]+)$                     *)
(* body (the normalized text) = [idLabel, thank, paid, total, fee, disc,   *)
(*                               detailed, simple, text]                   *)
(*   thank    the cleaned group(1) of RESTAURANT_PATTERN                   *)
(*   paid, total, fee, disc   group(1) of the four amount patterns         *)
(*   detailed group(1) of DATE_PATTERN,  simple  group(1) of the day-month *)
(*            pattern                                                      *)
(*   text     the normalized text itself, [tag, len]                       *)
(* Captures that go together in any text are kept together: a subject      *)
(* that the label rule or the Pro Plus rule matches is matched by the      *)
(* loose rule too, and a body that holds a detailed date span holds a      *)
(* day-month token.                                                        *)
(* A name capture is [name, len] (len its length after cleaning), an       *)
(* amount capture [paise, ok] (ok: float() accepts it once the commas are  *)
(* removed), a date span [fmt, wall] (fmt: the first format of the list    *)
(* that strptime accepts, 0 when none does; wall: what it parses to), a    *)
(* day-month token [ok, wall].                                             *)
(***************************************************************************)

\* _extract_order_id: the label rule on the subject, then on the body, then
\* the loose rule on the subject.
ExtractOrderId(subject, body) ==
    IF ~subject.isStr THEN Raised("TypeError")
    ELSE IF subject.idLabel # None THEN Returned(subject.idLabel)
    ELSE IF body.idLabel # None THEN Returned(body.idLabel)
    ELSE IF subject.idLoose # None THEN Returned(subject.idLoose)
    ELSE Returned(None)

\* A variant of NameLengthOk whose two comparisons admit the limits.
NameLengthOkInclusive(c) == 2 <= c.len /\ c.len <= 120

\* if 2 < len(restaurant) < 120
NameLengthOk(c) == 2 < c.len /\ c.len < 120

\* _extract_restaurant: the Pro Plus subject rule, the body rule, the
\* subject tail rule; a candidate failing the length check is passed over.
ExtractRestaurant(body, subject) ==
    IF ~subject.isStr THEN Raised("TypeError")
    ELSE IF subject.proPlus # None /\ NameLengthOk(Val(subject.proPlus))
    THEN Returned(Some(Val(subject.proPlus).name))
    ELSE IF body.thank # None /\ NameLengthOk(Val(body.thank))
    THEN Returned(Some(Val(body.thank).name))
    ELSE IF subject.fromTail # None /\ NameLengthOk(Val(subject.fromTail))
    THEN Returned(Some(Val(subject.fromTail).name))
    ELSE Returned(None)

\* float(group(1).replace(',', '')): the number, or ValueError.
ParseFloat(c) == IF c.ok THEN Returned(Some(c.paise)) ELSE Raised("ValueError")

\* A variant of ExtractTotalAmount that tries the Total rule first.
ExtractTotalAmountTotalFirst(body) ==
    IF body.total # None /\ ParseFloat(Val(body.total)).kind = "return"
    THEN ParseFloat(Val(body.total)).val
    ELSE IF body.paid # None /\ ParseFloat(Val(body.paid)).kind = "return"
    THEN ParseFloat(Val(body.paid)).val
    ELSE None

\* _extract_total_amount: the Paid rule, then the Total rule; a ValueError of
\* float() is passed over.
ExtractTotalAmount(body) ==
    IF body.paid # None /\ ParseFloat(Val(body.paid)).kind = "return"
    THEN ParseFloat(Val(body.paid)).val
    ELSE IF body.total # None /\ ParseFloat(Val(body.total)).kind = "return"
    THEN ParseFloat(Val(body.total)).val
    ELSE None

\* _extract_delivery_fee and _extract_discount: the amount, 0.0 when the rule
\* does not match or float() raises.
ExtractDeliveryFee(body) ==
    IF body.fee # None /\ ParseFloat(Val(body.fee)).kind = "return"
    THEN Val(ParseFloat(Val(body.fee)).val)
    ELSE 0

ExtractDiscount(body) ==
    IF body.disc # None /\ ParseFloat(Val(body.disc)).kind = "return"
    THEN Val(ParseFloat(Val(body.disc)).val)
    ELSE 0

\* The formats of the list of _extract_order_date are numbered 1..10; the
\* first eight hold %Y.
LastYearFormat == 8

\* A variant of ExtractOrderDate that tries the day-month token before the
\* detailed span.
ExtractOrderDateSimpleFirst(body, email_date) ==
    IF body.simple # None /\ email_date # None /\ Val(body.simple).ok
    THEN Returned(Some(ReplaceYear(Naive(Val(body.simple).wall), YearOf(Val(email_date)))))
    ELSE IF body.detailed # None /\ Val(body.detailed).fmt # 0
    THEN Returned(Some(Naive(Val(body.detailed).wall)))
    ELSE IF email_date # None THEN Returned(email_date)
    ELSE Raised("ValueError")

\* _extract_order_date: the detailed span parsed by the first format that
\* accepts it (the year taken from email_date when the format has none and
\* email_date is given); else the day-month token with email_date's year;
\* else email_date; else ValueError.
ExtractOrderDate(body, email_date) ==
    IF body.detailed # None /\ Val(body.detailed).fmt # 0
    THEN LET span == Val(body.detailed)
         IN  IF span.fmt > LastYearFormat /\ email_date # None
             THEN Returned(Some(ReplaceYear(Naive(span.wall), YearOf(Val(email_date)))))
             ELSE Returned(Some(Naive(span.wall)))
    ELSE IF body.simple # None /\ email_date # None /\ Val(body.simple).ok
    THEN Returned(Some(ReplaceYear(Naive(Val(body.simple).wall), YearOf(Val(email_date)))))
    ELSE IF email_date # None THEN Returned(email_date)
    ELSE Raised("ValueError")

(***************************************************************************)
(* The text normalizer (ZomatoEmailParser._convert_html_to_text)           *)
(*                                                                         *)
(* A text is a sequence of characters (strings of length one).             *)
(***************************************************************************)
\* The character at position i, "" past the end.
Char(s, i) == IF i \in 1..Len(s) THEN s[i] ELSE ""

\* re.IGNORECASE on the letters of the patterns.
Lower(c) ==
    CASE c = "B" -> "b" [] c = "R" -> "r" [] c = "P" -> "p"
      [] c = "T" -> "t" [] c = "D" -> "d" [] OTHER -> c

\* \s
IsSpace(c) == c \in {" ", "\n", "\t"}

\* The literal old stands at position i of s.
StartsAt(s, i, old) ==
    /\ i + Len(old) - 1 <= Len(s)
    /\ \A k \in 1..Len(old) : s[i + k - 1] = old[k]

\* s.replace(old, new), from position i on: the occurrences of old, left to
\* right and not overlapping, are replaced by new.
RECURSIVE ReplaceFrom(_, _, _, _)
ReplaceFrom(s, i, old, new) ==
    IF i > Len(s) THEN <<>>
    ELSE IF StartsAt(s, i, old) THEN new \o ReplaceFrom(s, i + Len(old), old, new)
    ELSE <<s[i]>> \o ReplaceFrom(s, i + 1, old, new)

Replace(s, old, new) == ReplaceFrom(s, 1, old, new)

\* The position of the first '>' at or after j, 0 when there is none.
FirstGt(s, j) ==
    IF \E k \in j..Len(s) : s[k] = ">"
    THEN CHOOSE k \in j..Len(s) : s[k] = ">" /\ \A m \in j..(k - 1) : s[m] # ">"
    ELSE 0

\* The first position at or after j that holds no whitespace.
AfterSpaces(s, j) ==
    CHOOSE k \in j..(Len(s) + 1) :
        ~IsSpace(Char(s, k)) /\ \A m \in j..(k - 1) : IsSpace(Char(s, m))

\* The length of the match of <br\s*/?> at position i, 0 when it does not
\* match there.
BrMatchLen(s, i) ==
    IF Char(s, i) = "<" /\ Lower(Char(s, i + 1)) = "b" /\ Lower(Char(s, i + 2)) = "r"
    THEN LET j == AfterSpaces(s, i + 3)
             k == IF Char(s, j) = "/" THEN j + 1 ELSE j
         IN  IF Char(s, k) = ">" THEN k - i + 1 ELSE 0
    ELSE 0

\* The same for <p[^>]*>, <td[^>]*> and <tr[^>]*> (name the tag's letters).
OpenTagMatchLen(name, s, i) ==
    IF /\ Char(s, i) = "<"
       /\ \A k \in 1..Len(name) : Lower(Char(s, i + k)) = name[k]
       /\ FirstGt(s, i + Len(name) + 1) # 0
    THEN FirstGt(s, i + Len(name) + 1) - i + 1
    ELSE 0

\* The same for </p>, </td> and </tr>.
CloseTagMatchLen(name, s, i) ==
    IF /\ Char(s, i) = "<"
       /\ Char(s, i + 1) = "/"
       /\ \A k \in 1..Len(name) : Lower(Char(s, i + 1 + k)) = name[k]
       /\ Char(s, i + Len(name) + 2) = ">"
    THEN Len(name) + 3
    ELSE 0

\* A variant of TagMatchLen for <[^<>]+>, which lets no '<' into a tag.
TagMatchLenInnermost(s, i) ==
    IF /\ Char(s, i) = "<"
       /\ FirstGt(s, i + 2) # 0
       /\ \A m \in (i + 1)..(FirstGt(s, i + 2) - 1) : s[m] \notin {"<", ">"}
    THEN FirstGt(s, i + 2) - i + 1
    ELSE 0

\* The same for <[^>]+>.
TagMatchLen(s, i) ==
    IF /\ Char(s, i) = "<"
       /\ i + 1 <= Len(s)
       /\ s[i + 1] # ">"
       /\ FirstGt(s, i + 2) # 0
    THEN FirstGt(s, i + 2) - i + 1
    ELSE 0

\* The same for \s+.
SpaceMatchLen(s, i) == AfterSpaces(s, i) - i

\* The patterns of the re.sub calls, by name.
MatchLen(pat, s, i) ==
    CASE pat = "br" -> BrMatchLen(s, i)
      [] pat = "p" -> OpenTagMatchLen(<<"p">>, s, i)
      [] pat = "/p" -> CloseTagMatchLen(<<"p">>, s, i)
      [] pat = "td" -> OpenTagMatchLen(<<"t", "d">>, s, i)
      [] pat = "/td" -> CloseTagMatchLen(<<"t", "d">>, s, i)
      [] pat = "tr" -> OpenTagMatchLen(<<"t", "r">>, s, i)
      [] pat = "/tr" -> CloseTagMatchLen(<<"t", "r">>, s, i)
      [] pat = "tag" -> TagMatchLen(s, i)
      [] pat = "ws" -> SpaceMatchLen(s, i)

\* re.sub(pat, new, s), from position i on: the matches, left to right and
\* not overlapping, are replaced by new.
RECURSIVE SubFrom(_, _, _, _)
SubFrom(pat, new, s, i) ==
    IF i > Len(s) THEN <<>>
    ELSE IF MatchLen(pat, s, i) > 0
    THEN new \o SubFrom(pat, new, s, i + MatchLen(pat, s, i))
    ELSE <<s[i]>> \o SubFrom(pat, new, s, i + 1)

Sub(pat, new, s) == SubFrom(pat, new, s, 1)

\* s.strip()
Strip(s) ==
    IF \A i \in 1..Len(s) : IsSpace(s[i]) THEN <<>>
    ELSE SubSeq(s,
                CHOOSE i \in 1..Len(s) : ~IsSpace(s[i]) /\ \A m \in 1..(i - 1) : IsSpace(s[m]),
                CHOOSE i \in 1..Len(s) : ~IsSpace(s[i]) /\ \A m \in (i + 1)..Len(s) : IsSpace(s[m]))

\* Step 1: the five replace calls that decode the entities, in their order.
DecodeEntities(s) ==
    Replace(Replace(Replace(Replace(Replace(s,
        <<"&", "a", "m", "p", ";">>, <<"&">>),
        <<"&", "l", "t", ";">>, <<"<">>),
        <<"&", "g", "t", ";">>, <<">">>),
        <<"&", "q", "u", "o", "t", ";">>, <<"\"">>),
        <<"&", "#", "3", "9", ";">>, <<"'">>)

\* Step 2: the seven re.sub calls that put a space for a structural tag, in
\* their order.
ReplaceStructuralTags(s) ==
    Sub("/tr", <<" ">>, Sub("tr", <<" ">>, Sub("/td", <<" ">>, Sub("td", <<" ">>,
        Sub("/p", <<" ">>, Sub("p", <<" ">>, Sub("br", <<" ">>, s)))))))

\* Step 3: the remaining tags are removed.
StripTags(s) == Sub("tag", <<>>, s)

\* Step 4: a run of whitespace becomes one space; the ends are trimmed.
CollapseWhitespace(s) == Strip(Sub("ws", <<" ">>, s))

\* _convert_html_to_text: the four steps in their order.
ConvertHtmlToText(s) ==
    CollapseWhitespace(StripTags(ReplaceStructuralTags(DecodeEntities(s))))

(***************************************************************************)
(* The Order Assembler (ZomatoEmailParser.extract_order)                   *)
(***************************************************************************)
\* raw_email_body=clean_body[:1000]
SnippetLimit == 1000
Slice(text, n) == [tag |-> text.tag, len |-> Min(text.len, n)]

\* The keyword arguments of the Order(...) call.
OrderKeywords(order_id, order_date, restaurant_name, total_amount, delivery_fee, discount, email_date, text) ==
    [order_id |-> order_id,
     order_date |-> order_date,
     restaurant_name |-> restaurant_name,
     amount |-> total_amount - delivery_fee + discount,
     delivery_fee |-> delivery_fee,
     discount |-> discount,
     total_amount |-> total_amount,
     status |-> "completed",
     email_date |-> email_date,
     raw_email_body |-> Some(Slice(text, SnippetLimit))]

\* The body of the try block: the value returned, or the exception raised
\* inside it.
ExtractOrderTry(subject, body, email_date) ==
    LET oid == ExtractOrderId(subject, body)
        name == ExtractRestaurant(body, subject)
        total == ExtractTotalAmount(body)
        od == ExtractOrderDate(body, email_date)
    IN  IF oid.kind = "raise" THEN oid
        ELSE IF oid.val = None THEN Returned(None)
        ELSE IF name.kind = "raise" THEN name
        ELSE IF name.val = None THEN Returned(None)
        ELSE IF total = None THEN Returned(None)
        ELSE IF od.kind = "raise" THEN od
        ELSE OrderInit(OrderKeywords(Val(oid.val), od.val, Val(name.val),
                 Val(total), ExtractDeliveryFee(body), ExtractDiscount(body),
                 email_date, body.text))

\* Variants of the except clause that catch one exception class only.
ExceptValueErrorOnly(exc) == exc = "ValueError"
ExceptTypeErrorOnly(exc) == exc = "TypeError"

\* except Exception: every exception class of the model derives from it.
ExceptException(exc) == exc \in ExceptionClasses

\* extract_order: the try block, and None for an exception the clause catches.
ExtractOrder(subject, body, email_date) ==
    LET r == ExtractOrderTry(subject, body, email_date)
    IN  IF r.kind = "raise" /\ ExceptException(r.exc) THEN Returned(None) ELSE r

(***************************************************************************)
(* The orders table (db/database.py)                                       *)
(***************************************************************************)
\* AUTOINCREMENT: one more than the largest id given so far (no row is ever
\* deleted).
NextRowId(tbl) ==
    IF tbl = {} THEN 1
    ELSE 1 + (CHOOSE m \in {r.id : r \in tbl} : \A r \in tbl : r.id <= m)

\* SELECT id FROM orders WHERE order_id = ?
SelectByOrderId(tbl, oid) == {r \in tbl : r.order_id = oid}

\* The attributes insert_order reads from the order it is given.
RowAttributes ==
    {"order_id", "order_date", "restaurant_name", "amount", "delivery_fee",
     "discount", "total_amount", "status", "payment_method",
     "delivery_location", "order_items", "raw_email_body", "email_date"}

\* The column values of the UPDATE and INSERT statements.
RowValues(order) ==
    [order_date |-> IsoFormat(Val(order["order_date"])),
     restaurant_name |-> order["restaurant_name"],
     amount |-> order["amount"],
     delivery_fee |-> order["delivery_fee"],
     discount |-> order["discount"],
     total_amount |-> order["total_amount"],
     status |-> order["status"],
     payment_method |-> order["payment_method"],
     delivery_location |-> order["delivery_location"],
     order_items |-> order["order_items"],
     raw_email_body |-> order["raw_email_body"],
     email_date |-> IF order["email_date"] = None THEN None
                    ELSE Some(IsoFormat(Val(order["email_date"])))]

\* A row: id, order_id, the column values, created_at and updated_at.
MakeRow(id, oid, v, created, updated) ==
    [id |-> id, order_id |-> oid, order_date |-> v.order_date,
     restaurant_name |-> v.restaurant_name, amount |-> v.amount,
     delivery_fee |-> v.delivery_fee, discount |-> v.discount,
     total_amount |-> v.total_amount, status |-> v.status,
     payment_method |-> v.payment_method,
     delivery_location |-> v.delivery_location,
     order_items |-> v.order_items, raw_email_body |-> v.raw_email_body,
     email_date |-> v.email_date, created_at |-> created, updated_at |-> updated]

\* INSERT INTO orders: IntegrityError when order_id UNIQUE would be broken.
SqlInsert(tbl, oid, v, now) ==
    IF SelectByOrderId(tbl, oid) # {}
    THEN [rows |-> tbl, exc |-> "IntegrityError"]
    ELSE [rows |-> tbl \cup {MakeRow(NextRowId(tbl), oid, v, now, now)},
          exc |-> "none"]

\* UPDATE orders SET ... WHERE order_id = ?
SqlUpdate(tbl, oid, v, now) ==
    {IF r.order_id = oid THEN MakeRow(r.id, oid, v, r.created_at, now) ELSE r
        : r \in tbl}

\* The outcome of a database call: the table, the value returned, the
\* exception raised ("none" when it returned).
DbResult(tbl, ret, exc) == [rows |-> tbl, ret |-> ret, exc |-> exc]

\* A variant of insert_order that inserts a row whatever the table holds.
InsertOrderAppendOnly(tbl, order, upsert, now) ==
    IF ~(RowAttributes \subseteq DOMAIN order) \/ order["order_date"] = None
    THEN DbResult(tbl, FALSE, "AttributeError")
    ELSE DbResult(tbl \cup {MakeRow(NextRowId(tbl), order["order_id"],
                                   RowValues(order), now, now)}, TRUE, "none")

\* insert_order(order, upsert): an existing order_id is left alone
\* (upsert=False, returns False) or updated (upsert=True); a new one is
\* inserted.  An attribute the order lacks, or order_date None, raises
\* AttributeError where the statement's values are built.
InsertOrder(tbl, order, upsert, now) ==
    IF ~("order_id" \in DOMAIN order) THEN DbResult(tbl, FALSE, "AttributeError")
    ELSE IF SelectByOrderId(tbl, order["order_id"]) # {} /\ ~upsert
    THEN DbResult(tbl, FALSE, "none")
    ELSE IF ~(RowAttributes \subseteq DOMAIN order) \/ order["order_date"] = None
    THEN DbResult(tbl, FALSE, "AttributeError")
    ELSE IF SelectByOrderId(tbl, order["order_id"]) # {}
    THEN DbResult(SqlUpdate(tbl, order["order_id"], RowValues(order), now),
                  TRUE, "none")
    ELSE LET w == SqlInsert(tbl, order["order_id"], RowValues(order), now)
         IN  DbResult(w.rows, w.exc = "none", w.exc)

\* bulk_upsert_orders(orders, upsert) -> (inserted, updated, skipped): the
\* orders are written one by one, in batch order, each as insert_order writes
\* it; an order whose order_id exists is counted updated (upsert) or skipped
\* (not upsert), another one inserted.  Storage fails while writing order
\* number failAt (0: it does not fail): the call raises and the orders
\* written before it stay written.
RECURSIVE BulkUpsertFrom(_, _, _, _, _, _)
BulkUpsertFrom(acc, orders, k, upsert, now, failAt) ==
    IF k > Len(orders) \/ acc.exc # "none" THEN acc
    ELSE IF k = failAt THEN [acc EXCEPT !.exc = "OperationalError"]
    ELSE LET o == orders[k]
             existed == "order_id" \in DOMAIN o
                        /\ SelectByOrderId(acc.rows, o["order_id"]) # {}
             w == InsertOrder(acc.rows, o, upsert, now)
         IN  BulkUpsertFrom(
                 [rows |-> w.rows,
                  inserted |-> acc.inserted + (IF w.exc = "none" /\ ~existed THEN 1 ELSE 0),
                  updated |-> acc.updated + (IF w.exc = "none" /\ existed /\ upsert THEN 1 ELSE 0),
                  skipped |-> acc.skipped + (IF w.exc = "none" /\ existed /\ ~upsert THEN 1 ELSE 0),
                  exc |-> w.exc],
                 orders, k + 1, upsert, now, failAt)

BulkUpsertOrders(tbl, orders, upsert, now, failAt) ==
    BulkUpsertFrom([rows |-> tbl, inserted |-> 0, updated |-> 0, skipped |-> 0,
                    exc |-> "none"], orders, 1, upsert, now, failAt)

(***************************************************************************)
(* The admission filter (MBoxParser.validate_email)                        *)
(***************************************************************************)
\* any(['zomato' in subject.lower(), 'zomato' in from_addr.lower(),
\*      'order' in subject.lower() and 'zomato' in from_addr.lower()])
ValidateEmail(subject, sender) ==
    IF ~subject.isStr THEN Raised("AttributeError")
    ELSE Returned(subject.zomato \/ sender.zomato
                  \/ (subject.order /\ sender.zomato))

(***************************************************************************)
(* The incremental import controller (importer.incremental_import)         *)
(***************************************************************************)
\* A variant of NormalizeToUtc that reads a naive datetime as UTC.
NormalizeToUtcNaiveAsUtc(dt) ==
    IF ~dt.aware THEN ReplaceTz(dt, UTC)
    ELSE AsTimezone(AsTimezone(dt, IST), UTC)

\* The header date as the loop normalizes it: a naive one is read as IST, an
\* aware one moved to IST, then either is moved to UTC.
NormalizeToUtc(dt) ==
    IF ~dt.aware THEN AsTimezone(ReplaceTz(dt, IST), UTC)
    ELSE AsTimezone(AsTimezone(dt, IST), UTC)

NormalizeHeaderDate(d) == IF d = None THEN None ELSE Some(NormalizeToUtc(Val(d)))

\* if email_dt and last_sync and email_dt <= last_sync
SkippedByWatermark(email_dt, last_sync) ==
    email_dt # None /\ last_sync # None /\ DtLe(Val(email_dt), Val(last_sync))

\* if newest_order_dt is None or order.order_date > newest_order_dt
NewerThan(od, newest) == newest = None \/ DtGt(od, Val(newest))

\* What the loop carries: the batch, the skipped count, the newest order
\* date, the exception that ended the loop ("none" while it runs), and, for
\* the record, the positions the filter dropped, the positions the watermark
\* skipped and the positions handed to extract_order.
LoopStart(last_sync) ==
    [orders |-> <<>>, skipped |-> 0, newest |-> last_sync, exc |-> "none",
     filtered |-> {}, wmSkipped |-> {}, calls |-> {}]

\* One pass of the loop body on the email at position i.
LoopBody(acc, i, e, last_sync, now) ==
    LET valid == ValidateEmail(e.subject, e.sender)
        email_dt == NormalizeHeaderDate(e.date)
        r == ExtractOrder(e.subject, e.body, email_dt)
    IN  IF valid.kind = "raise" THEN [acc EXCEPT !.exc = valid.exc]
        ELSE IF ~valid.val THEN [acc EXCEPT !.filtered = @ \cup {i}]
        ELSE IF SkippedByWatermark(email_dt, last_sync)
        THEN [acc EXCEPT !.skipped = @ + 1, !.wmSkipped = @ \cup {i}]
        ELSE IF r.kind = "raise"
        THEN [acc EXCEPT !.exc = r.exc, !.calls = @ \cup {i}]
        ELSE IF r.val = None THEN [acc EXCEPT !.calls = @ \cup {i}]
        ELSE LET order == Val(r.val)
             IN  IF ~("order_date" \in DOMAIN order)
                 THEN [acc EXCEPT !.exc = "AttributeError", !.calls = @ \cup {i}]
                 ELSE LET od == IF order["order_date"] # None
                                THEN Val(order["order_date"])
                                ELSE IF email_dt # None THEN Val(email_dt)
                                ELSE Aware(now, UTC)
                          odUtc == NormalizeToUtc(od)
                      IN  [acc EXCEPT
                              !.orders = Append(@, [order EXCEPT !["order_date"] = Some(odUtc)]),
                              !.newest = IF NewerThan(odUtc, @) THEN Some(odUtc) ELSE @,
                              !.calls = @ \cup {i}]

RECURSIVE LoopFrom(_, _, _, _, _)
LoopFrom(acc, i, emails, last_sync, now) ==
    IF i > Len(emails) \/ acc.exc # "none" THEN acc
    ELSE LoopFrom(LoopBody(acc, i, emails[i], last_sync, now), i + 1, emails,
                  last_sync, now)

\* What a run leaves and returns: the table, the watermark file, the tuple
\* returned, the exception it ended with, and the loop's record.
RunResult(tbl, file, ret, exc, loop) ==
    [rows |-> tbl, file |-> file, ret |-> ret, exc |-> exc,
     filtered |-> loop.filtered, wmSkipped |-> loop.wmSkipped,
     calls |-> loop.calls, batch |-> Len(loop.orders)]

\* A variant of EmptyRunReturn with the counts in the wrong places.
EmptyRunReturnSwapped(skipped) == <<skipped, 0, 0>>

\* if not orders: return 0, 0, skipped
EmptyRunReturn(skipped) == <<0, 0, skipped>>

\* A variant of LastSyncOf that reads the watermark file whatever force is.
LastSyncOfStored(force, file) == ReadLastSync(file)

\* last_sync = None if force else read_last_sync(LAST_SYNC_FILE)
LastSyncOf(force, file) == IF force THEN None ELSE ReadLastSync(file)

\* After the batch upsert: an exception of the database leaves the run before
\* the watermark is written; otherwise the watermark is written when there
\* is a newest order date, and the counts are returned.
ImportFinish(file, loop, db) ==
    IF db.exc # "none"
    THEN RunResult(db.rows, file, <<0, 0, 0>>, db.exc, loop)
    ELSE RunResult(db.rows,
                   IF loop.newest # None THEN WriteLastSync(Val(loop.newest)) ELSE file,
                   <<db.inserted, db.updated, loop.skipped + db.skipped>>,
                   "none", loop)

\* After the loop: an exception of the loop ends the run; an empty batch
\* returns at once; otherwise the batch is handed to bulk_upsert_orders.
ImportBatch(tbl, file, force, now, failAt, loop) ==
    IF loop.exc # "none"
    THEN RunResult(tbl, file, <<0, 0, 0>>, loop.exc, loop)
    ELSE IF Len(loop.orders) = 0
    THEN RunResult(tbl, file, EmptyRunReturn(loop.skipped), "none", loop)
    ELSE ImportFinish(file, loop,
                      BulkUpsertOrders(tbl, loop.orders, force, now, failAt))

\* incremental_import(mbox_path, force=force) on the archive, the table and
\* the watermark file as they are.
IncrementalImport(emails, tbl, file, force, now, failAt) ==
    ImportBatch(tbl, file, force, now, failAt,
                LoopFrom(LoopStart(LastSyncOf(force, file)), 1, emails,
                         LastSyncOf(force, file), now))

\* parser = MBoxParser(mbox_file): FileNotFoundError when the path names no
\* file, raised before the database is opened and the watermark read.
ImportArchive(found, emails, tbl, file, force, now, failAt) ==
    IF ~found
    THEN RunResult(tbl, file, <<0, 0, 0>>, "FileNotFoundError", LoopStart(None))
    ELSE IncrementalImport(emails, tbl, file, force, now, failAt)

(***************************************************************************)
(* Inputs                                                                  *)
(***************************************************************************)
\* Bound of the model: the archive's length.
MaxArchive == 2

\* Half hours since year 0 of hour h (in half hours) of day d of 2024.
At(d, h) == 2024 * HalfHoursPerYear + 48 * d + h

\* The readings of the clock (datetime.now, CURRENT_TIMESTAMP).
NowTicks == {At(50, 1), At(50, 2)}

Subject(zomato, order, idLabel, idLoose, proPlus, fromTail) ==
    [isStr |-> TRUE, zomato |-> zomato, order |-> order, idLabel |-> idLabel,
     idLoose |-> idLoose, idHash |-> FALSE, proPlus |-> proPlus,
     fromTail |-> fromTail]

Body(idLabel, thank, paid, total, fee, disc, detailed, simple, text) ==
    [idLabel |-> idLabel, thank |-> thank, paid |-> paid, total |-> total,
     fee |-> fee, disc |-> disc, detailed |-> detailed, simple |-> simple,
     text |-> text]

Name(n, l) == [name |-> n, len |-> l]
Amount(p) == [paise |-> p, ok |-> TRUE]
BadAmount == [paise |-> 0, ok |-> FALSE]
Text(t, l) == [tag |-> t, len |-> l]

\* The emails an archive is made of.
\* EmailA1: order ORD1A1, "Paid" template, header date with +05:30, no date
\*          in the body.
EmailA1 ==
    [subject |-> Subject(TRUE, TRUE, Some("ORD1A1"), Some("ID"), None,
                         Some(Name("Dominoes Pizza", 14))),
     sender |-> [zomato |-> TRUE],
     body |-> Body(None, None, Some(Amount(30000)), None, None, None, None,
                   None, Text("a1", 400)),
     date |-> Some(Aware(At(10, 29), IST))]

\* EmailA2: the same order ORD1A1 in a second email, naive header date, a
\*          dated body, "Total" template with fee and discount.
EmailA2 ==
    [subject |-> Subject(TRUE, TRUE, None, None, None, None),
     sender |-> [zomato |-> TRUE],
     body |-> Body(Some("ORD1A1"), Some(Name("Dominoes Pizza", 14)), None,
                   Some(Amount(44000)), Some(Amount(4000)), Some(Amount(5000)),
                   Some([fmt |-> 1, wall |-> At(11, 29)]),
                   Some([ok |-> TRUE, wall |-> At(11, 0)]), Text("a2", 600)),
     date |-> Some(Naive(At(12, 20)))]

\* EmailB: order ORD2B2, no Date header, a dated body, a long text.
EmailB ==
    [subject |-> Subject(FALSE, TRUE, Some("ORD2B2"), Some("ID"),
                         Some(Name("Shree Ganesh Fast Food", 22)), None),
     sender |-> [zomato |-> TRUE],
     body |-> Body(None, None, Some(Amount(25000)), None, None, None,
                   Some([fmt |-> 5, wall |-> At(20, 0)]),
                   Some([ok |-> FALSE, wall |-> 0]), Text("b", 1500)),
     date |-> None]

\* EmailX: a complete order email that names the provider nowhere.
EmailX ==
    [subject |-> Subject(FALSE, TRUE, Some("ORD3C3"), Some("ID"), None,
                         Some(Name("Biryani House", 13))),
     sender |-> [zomato |-> FALSE],
     body |-> Body(None, None, Some(Amount(12000)), None, None, None, None,
                   None, Text("x", 300)),
     date |-> Some(Aware(At(5, 10), UTC))]

\* EmailP: an admitted email without any amount.
EmailP ==
    [subject |-> Subject(TRUE, TRUE, Some("ORD4D4"), Some("ID"), None,
                         Some(Name("Cafe Mocha", 10))),
     sender |-> [zomato |-> FALSE],
     body |-> Body(None, None, None, None, None, None, None, None,
                   Text("p", 200)),
     date |-> Some(Aware(At(30, 0), UTC))]

\* EmailH: an email whose Subject header holds raw 8-bit characters: the
\* mailbox hands it over as an email.header.Header, not a str.
EmailH ==
    [subject |-> [Subject(TRUE, TRUE, None, None, None, None) EXCEPT !.isStr = FALSE],
     sender |-> [zomato |-> TRUE],
     body |-> Body(None, None, Some(Amount(30000)), None, None, None, None,
                   None, Text("h", 100)),
     date |-> Some(Aware(At(11, 18), UTC))]

ArchiveEmails == {EmailA1, EmailA2, EmailB, EmailX, EmailP, EmailH}

\* The readings the clock can give now: time does not run backwards, so none
\* is earlier than a timestamp the table already holds.
ClockNow(tbl) == {t \in NowTicks : \A r \in tbl : r.updated_at <= t}

\* An object with the attributes insert_order reads, as a caller of the
\* database hands it over.
ApiOrder(oid, od, total) ==
    [order_id |-> oid, order_date |-> Some(od),
     restaurant_name |-> "Dominoes Pizza", amount |-> total,
     delivery_fee |-> 0, discount |-> 0, total_amount |-> total,
     status |-> "completed", payment_method |-> None,
     delivery_location |-> None, order_items |-> None,
     raw_email_body |-> None, email_date |-> None]

ApiOrders ==
    {ApiOrder("ORD1A1", Aware(At(10, 18), UTC), 30000),
     ApiOrder("ORD9Z9", Naive(At(40, 0)), 9000)}

\* The timestamps write_last_sync is called with.
SyncTimes == {Naive(At(15, 0)), Aware(At(15, 11), IST), Aware(At(40, 0), UTC)}

(***************************************************************************)
(* Operations                                                              *)
(***************************************************************************)
NoOp ==
    [op |-> "none", force |-> FALSE, emails |-> <<>>, rowsBefore |-> {},
     wmBefore |-> None, ret |-> <<0, 0, 0>>, exc |-> "none", filtered |-> {},
     wmSkipped |-> {}, calls |-> {}, batch |-> 0, existed |-> FALSE,
     upsert |-> FALSE, returned |-> FALSE, found |-> TRUE, fileBefore |-> None]

NoInput == [subject |-> EmailA1.subject, body |-> EmailA1.body, email_date |-> None]
NotRun == [kind |-> "none", val |-> None, exc |-> "none"]

Init ==
    /\ rows = {}
    /\ syncFile = None
    /\ archive = <<>>
    /\ last = NoOp
    /\ prev = NoOp
    /\ input = NoInput
    /\ output = NotRun

\* The archive gains an email.
ArchiveAppend ==
    /\ Len(archive) < MaxArchive
    /\ \E e \in ArchiveEmails : archive' = Append(archive, e)
    /\ last' = [NoOp EXCEPT !.op = "append"]
    /\ prev' = NoOp
    /\ UNCHANGED <<rows, syncFile, input, output>>

\* OrderDatabase.insert_order(order, upsert) called on the table.
InsertOrderCall ==
    \E o \in ApiOrders, upsert \in BOOLEAN, now \in ClockNow(rows) :
        \E w \in {InsertOrder(rows, o, upsert, now)} :
            /\ rows' = w.rows
            /\ last' = [NoOp EXCEPT !.op = "insert_order",
                                    !.existed = SelectByOrderId(rows, o["order_id"]) # {},
                                    !.upsert = upsert, !.returned = w.ret,
                                    !.exc = w.exc]
            /\ prev' = NoOp
            /\ UNCHANGED <<syncFile, archive, input, output>>

\* write_last_sync(LAST_SYNC_FILE, dt) called on the watermark file.
WriteLastSyncCall ==
    /\ \E dt \in SyncTimes : syncFile' = WriteLastSync(dt)
    /\ last' = [NoOp EXCEPT !.op = "write_last_sync"]
    /\ prev' = NoOp
    /\ UNCHANGED <<rows, archive, input, output>>

\* A run of incremental_import, on the archive or on a path that names no
\* file.
ImportRun ==
    \E found \in BOOLEAN, force \in BOOLEAN, now \in ClockNow(rows) :
      \E failAt \in 0..(IF found THEN Len(archive) ELSE 0) :
        \E run \in {ImportArchive(found, archive, rows, syncFile, force, now, failAt)} :
            /\ rows' = run.rows
            /\ syncFile' = run.file
            /\ last' = [NoOp EXCEPT !.op = "import", !.force = force,
                                    !.emails = archive, !.rowsBefore = rows,
                                    !.wmBefore = ReadLastSync(syncFile),
                                    !.found = found, !.fileBefore = syncFile,
                                    !.ret = run.ret, !.exc = run.exc,
                                    !.filtered = run.filtered,
                                    !.wmSkipped = run.wmSkipped,
                                    !.calls = run.calls, !.batch = run.batch]
            /\ prev' = IF last.op = "import" /\ last.exc = "none" THEN last ELSE NoOp
            /\ UNCHANGED <<archive, input, output>>

Next == ArchiveAppend \/ InsertOrderCall \/ WriteLastSyncCall \/ ImportRun

Spec == Init /\ [][Next]_vars

(***************************************************************************)
(* extract_order on its own                                                *)
(***************************************************************************)
\* The subjects, bodies and email dates extract_order is applied to.
SubjectSpace ==
    {s \in [isStr : BOOLEAN, zomato : {TRUE}, order : {TRUE},
             idLabel : {None, Some("ORD1A1")},
             idLoose : {None, Some("from")},
             idHash : {FALSE},
             proPlus : {None, Some(Name("Shree Ganesh Fast Food", 22))},
             fromTail : {None, Some(Name("Dominoes Pizza", 14))}] :
        (s.idLabel # None \/ s.proPlus # None) => s.idLoose # None}

BodySpace ==
  {b \in
    [idLabel : {None},
     thank : {None, Some(Name("KF", 2))},
     paid : {None, Some(Amount(30000)), Some(BadAmount)},
     total : {None, Some(Amount(44000))},
     fee : {None, Some(Amount(4000))},
     disc : {None, Some(Amount(5000))},
     detailed : {None, Some([fmt |-> 0, wall |-> 0]),
                 Some([fmt |-> 1, wall |-> At(11, 29)])},
     simple : {None, Some([ok |-> TRUE, wall |-> At(11, 0)]),
               Some([ok |-> FALSE, wall |-> 0])},
     text : {Text("s", 400), Text("l", 1500)}] :
    b.detailed # None => b.simple # None}

EmailDateSpace == {None, Some(Aware(At(10, 18), UTC)), Some(Naive(At(12, 20)))}

\* The first email of SAMPLE_EMAILS, as the patterns of the parser read it:
\* the subject 'Your Zomato order ORD123456 is confirmed' is matched by the
\* loose id rule only; the normalized body (448 characters) is matched by the
\* label rule ('Order ID: ORD123456'), the Total rule ('Total Amount:
\* ₹440.00'), the fee rule ('Delivery Charges: ₹40.00'), the discount rule
\* ('Promo Discount: -₹50.00') and the day-month rule ('15 Jan'); no
\* restaurant rule matches 'Restaurant: Dominoes Pizza', and DATE_PATTERN
\* does not match 'Date: 15 Jan 2024, 2:30 PM'.
SampleEmailSubject == Subject(TRUE, TRUE, None, Some("ORD123456"), None, None)

SampleEmailBody ==
    Body(Some("ORD123456"), None, None, Some(Amount(44000)), Some(Amount(4000)),
         Some(Amount(5000)), None, Some([ok |-> TRUE, wall |-> At(14, 0)]),
         Text("sample", 448))

SampleEmailInputs ==
    [subject : {SampleEmailSubject}, body : {SampleEmailBody},
     email_date : EmailDateSpace \cup {Some(Aware(At(14, 29), IST))}]

\* Inputs that differ in what the order id rules capture.  The subject, as
\* <<idLabel, idLoose, idHash>>: no 'order <word>' at all; 'order from';
\* 'order #12345'; 'Order ID: ORD1A1' (the loose rule captures 'ID');
\* 'order #12345' before 'Order ID: ORD1A1'.  The body holds a label or
\* none.  The rest is a complete "Paid" email.
OrderIdSubjects ==
    {<<None, None, FALSE>>, <<None, Some("from"), FALSE>>,
     <<None, Some("12345"), TRUE>>, <<Some("ORD1A1"), Some("ID"), FALSE>>,
     <<Some("ORD1A1"), Some("12345"), TRUE>>}

OrderIdInputs ==
    {[subject |-> [Subject(TRUE, TRUE, c[1], c[2], None, Some(Name("Dominoes Pizza", 14)))
                       EXCEPT !.idHash = c[3]],
      body |-> Body(bl, None, Some(Amount(30000)), None, None, None, None, None,
                    Text("i", 400)),
      email_date |-> Some(Aware(At(10, 18), UTC))] :
        c \in OrderIdSubjects, bl \in {None, Some("ORD2B2")}}

\* The candidates of a restaurant rule: none, and names of 2, 3, 119 and 120
\* characters.
NameSpace(n) == {None, Some(Name(n, 2)), Some(Name(n, 3)), Some(Name(n, 119)),
                 Some(Name(n, 120))}

\* Inputs that differ in what the three restaurant rules capture.
RestaurantInputs ==
    {[subject |-> Subject(TRUE, TRUE, Some("ORD1A1"), Some("ID"), pp, ft),
      body |-> Body(None, th, Some(Amount(30000)), None, None, None, None, None,
                    Text("r", 400)),
      email_date |-> Some(Aware(At(10, 18), UTC))] :
        pp \in NameSpace("Shree Ganesh Fast Food"), th \in NameSpace("Cafe Mocha"),
        ft \in NameSpace("Dominoes Pizza")}

\* Inputs that differ in what the Paid rule and the Total rule capture: no
\* match, an amount, or a text float() turns down (',').
TotalInputs ==
    {[subject |-> EmailA1.subject,
      body |-> Body(None, None, pd, tt, None, None, None, None, Text("t", 400)),
      email_date |-> Some(Aware(At(10, 18), UTC))] :
        pd \in {None, Some(Amount(30000)), Some(BadAmount)},
        tt \in {None, Some(Amount(44000)), Some(BadAmount)}}

ExtractInputs ==
    [subject : SubjectSpace, body : BodySpace, email_date : EmailDateSpace]
        \cup SampleEmailInputs \cup OrderIdInputs \cup RestaurantInputs
        \cup TotalInputs

InitExtract ==
    /\ rows = {}
    /\ syncFile = None
    /\ archive = <<>>
    /\ last = NoOp
    /\ prev = NoOp
    /\ input \in ExtractInputs
    /\ output = NotRun

\* ZomatoEmailParser.extract_order(subject, body, email_date) is called.
ExtractCall ==
    /\ output = NotRun
    /\ output' = ExtractOrder(input.subject, input.body, input.email_date)
    /\ UNCHANGED <<rows, syncFile, archive, last, prev, input>>

NextExtract == ExtractCall

SpecExtract == InitExtract /\ [][NextExtract]_vars

(***************************************************************************)
(* The watermark file and the date normalization on their own              *)
(***************************************************************************)
\* timezone(timedelta(hours=-8)), in half hours (a Date header with -0800).
PST == -16

\* The datetimes handed to write_last_sync and to the normalization: naive
\* and aware ones, of three offsets, early in the year's first day and later.
TimeInputs ==
    {Naive(w) : w \in {At(0, 5), At(10, 29), At(12, 20), At(40, 0)}}
        \cup {Aware(w, o) : w \in {At(0, 5), At(10, 29), At(12, 20), At(40, 0)},
                            o \in {IST, UTC, PST}}

\* A watermark file that holds no ISO timestamp: an empty text, and a text
\* datetime.fromisoformat turns down.
EmptyFile == Some([text |-> "", wall |-> 0, suffix |-> FALSE, off |-> 0])
UnparsableFile == Some([text |-> "not a date", wall |-> 0, suffix |-> FALSE, off |-> 0])

\* What the watermark file holds before anything is written: nothing (no
\* file), one of the two above, or an ISO text without offset or with +05:30
\* that an earlier version or an editor left.
StoredFiles ==
    {None, EmptyFile, UnparsableFile, Some(IsoFormat(Naive(At(15, 0)))),
     Some(IsoFormat(Aware(At(15, 11), IST)))}

\* No call yet; wrote: write_last_sync(input) has been called.
TimeNotRun == [kind |-> "none", val |-> None, wrote |-> FALSE]

InitTime ==
    /\ rows = {}
    /\ syncFile \in StoredFiles
    /\ archive = <<>>
    /\ last = NoOp
    /\ prev = NoOp
    /\ input \in TimeInputs
    /\ output = TimeNotRun

\* write_last_sync(LAST_SYNC_FILE, input)
WriteStore ==
    /\ syncFile' = WriteLastSync(input)
    /\ output' = [kind |-> "write", val |-> None, wrote |-> TRUE]
    /\ UNCHANGED <<rows, archive, last, prev, input>>

\* read_last_sync(LAST_SYNC_FILE)
ReadStore ==
    /\ output' = [kind |-> "read", val |-> ReadLastSync(syncFile), wrote |-> output.wrote]
    /\ UNCHANGED <<rows, syncFile, archive, last, prev, input>>

\* The normalization of incremental_import applied to input.
NormalizeCall ==
    /\ output' = [kind |-> "normalize", val |-> Some(NormalizeToUtc(input)),
                  wrote |-> output.wrote]
    /\ UNCHANGED <<rows, syncFile, archive, last, prev, input>>

NextTime == WriteStore \/ ReadStore \/ NormalizeCall

SpecTime == InitTime /\ [][NextTime]_vars

(***************************************************************************)
(* The text normalizer on its own                                          *)
(***************************************************************************)
\* Bound of the model: the number of pieces a raw body is made of.
MaxPieces == 3

\* The pieces: entities whole and in part, brackets, tags whole and in part,
\* a letter, whitespace.
Pieces ==
    {<<"&", "a", "m", "p", ";">>, <<"a", "m", "p", ";">>, <<"l", "t", ";">>,
     <<"<">>, <<">">>, <<"<", "b", "r">>, <<"<", "/", "P", ">">>, <<"b">>,
     <<" ">>, <<"\n">>}

\* The texts made of n pieces.
RECURSIVE TextsOf(_)
TextsOf(n) ==
    IF n = 0 THEN {<<>>}
    ELSE {t \o p : t \in TextsOf(n - 1), p \in Pieces}

\* The raw bodies: the texts made of up to MaxPieces pieces.
TextInputs == UNION {TextsOf(n) : n \in 0..MaxPieces}

\* No step yet: the text is the raw body.
TextNotRun(body) == [step |-> "none", text |-> body]

InitText ==
    /\ rows = {}
    /\ syncFile = None
    /\ archive = <<>>
    /\ last = NoOp
    /\ prev = NoOp
    /\ input \in TextInputs
    /\ output = TextNotRun(input)

\* The steps of _convert_html_to_text, each applied to the text as it is.
DecodeEntitiesStep ==
    /\ output' = [step |-> "entities", text |-> DecodeEntities(output.text)]
    /\ UNCHANGED <<rows, syncFile, archive, last, prev, input>>

ReplaceStructuralTagsStep ==
    /\ output' = [step |-> "structural", text |-> ReplaceStructuralTags(output.text)]
    /\ UNCHANGED <<rows, syncFile, archive, last, prev, input>>

StripTagsStep ==
    /\ output' = [step |-> "strip", text |-> StripTags(output.text)]
    /\ UNCHANGED <<rows, syncFile, archive, last, prev, input>>

CollapseWhitespaceStep ==
    /\ output' = [step |-> "collapse", text |-> CollapseWhitespace(output.text)]
    /\ UNCHANGED <<rows, syncFile, archive, last, prev, input>>

NextText ==
    \/ DecodeEntitiesStep
    \/ ReplaceStructuralTagsStep
    \/ StripTagsStep
    \/ CollapseWhitespaceStep

SpecText == InitText /\ [][NextText]_vars

(***************************************************************************)
(* Properties of the importer and the orders table (Spec)                  *)
(***************************************************************************)
\* The latest operation is a run of incremental_import that returned.
ImportReturned == last.op = "import" /\ last.exc = "none"

\* The run before the latest operation, when both are runs of
\* incremental_import with nothing in between, returned too.
RanTwice == ImportReturned /\ prev.op = "import" /\ prev.exc = "none"

OrderIdsOf(tbl) == {r.order_id : r \in tbl}

C3_SecondRunChangesNothing ==
    (RanTwice /\ ~last.force /\ last.emails = prev.emails)
        => /\ last.ret[1] = 0
           /\ last.ret[2] = 0
           /\ rows = last.rowsBefore

\* Two runs in a row, the second without force: it skipped an email by the
\* watermark and handed another to extract_order.
C3_Witness ==
    /\ RanTwice
    /\ ~last.force
    /\ last.emails = prev.emails
    /\ last.wmSkipped # {}
    /\ last.calls # {}

C5_OneRowPerOrderId ==
    \A r1, r2 \in rows : r1.order_id = r2.order_id => r1 = r2

\* insert_order was called with upsert on an order id the table held, next
\* to a row of another order id, and returned True.
C5_Witness ==
    /\ last.op = "insert_order"
    /\ last.existed
    /\ last.upsert
    /\ last.returned
    /\ Cardinality(rows) = 2

\* C7: an email the admission filter turns down is never handed to
\* extract_order, and the skipped count a run returns counts every such
\* email (next to the emails the watermark skipped).
C7_FilteredEmailsCounted ==
    ImportReturned
        => /\ last.filtered \cap last.calls = {}
           /\ last.batch <= Cardinality(last.calls)
           /\ last.ret[3] >= Cardinality(last.filtered) + Cardinality(last.wmSkipped)

\* A run returned that turned down an email at the admission filter.
C7_Witness == ImportReturned /\ last.filtered # {}

\* C17: a run on a path that names no file ends with an error before any
\* email is read and leaves the table and the watermark file as they were;
\* a run on an archive that exists is aborted by no email.
C17_OnlyMissingArchiveAborts ==
    last.op = "import"
        => /\ ~last.found
                => /\ last.exc = "FileNotFoundError"
                   /\ last.filtered = {} /\ last.wmSkipped = {} /\ last.calls = {}
                   /\ rows = last.rowsBefore
                   /\ syncFile = last.fileBefore
           /\ last.found => last.exc = "none"

\* A run on a path that names no file, with rows in the table and a
\* watermark on file.
C17_Witness ==
    /\ last.op = "import"
    /\ ~last.found
    /\ rows # {}
    /\ syncFile # None

\* C18: a run in which no email yields an order leaves the table and the
\* watermark file as they were and returns (0, 0, skipped), skipped being
\* the count the loop kept (the emails the watermark skipped).
C18_EmptyBatchChangesNothing ==
    (ImportReturned /\ last.batch = 0)
        => /\ rows = last.rowsBefore
           /\ syncFile = last.fileBefore
           /\ last.ret = <<0, 0, Cardinality(last.wmSkipped)>>

\* A run with an empty batch returned that skipped an email by the
\* watermark and handed another to extract_order, with rows in the table.
C18_Witness ==
    /\ ImportReturned
    /\ last.batch = 0
    /\ last.wmSkipped # {}
    /\ last.calls # {}
    /\ rows # {}

\* C19: every admitted email on which extract_order returns no order is
\* counted in the skipped total the run returns (next to the emails the
\* watermark skipped), and the run goes on.
C19_UnparsedEmailsCounted ==
    ImportReturned
        => last.ret[3] >= (Cardinality(last.calls) - last.batch)
                              + Cardinality(last.wmSkipped)

\* A run returned in which extract_order gave no order for an email.
C19_Witness ==
    /\ ImportReturned
    /\ Cardinality(last.calls) > last.batch

\* C20: on a second run without force over the archive as the first run
\* (without force) saw it, no email is handed to extract_order.
C20_SecondRunCallsNothing ==
    (RanTwice /\ ~prev.force /\ ~last.force /\ last.emails = prev.emails)
        => last.calls = {}

\* Two runs without force in a row over an archive that holds an admitted
\* email.
C20_Witness ==
    /\ RanTwice
    /\ ~prev.force
    /\ ~last.force
    /\ last.emails = prev.emails
    /\ last.calls \cup last.wmSkipped # {}

\* The positions of the emails of a run that the admission filter admits.
Admitted(emails) ==
    {i \in 1..Len(emails) :
        /\ ValidateEmail(emails[i].subject, emails[i].sender).kind = "return"
        /\ ValidateEmail(emails[i].subject, emails[i].sender).val}

\* The positions of a run's emails whose header date is not later than the
\* watermark the file held when the run started.
NotLaterThanStored(op) ==
    {i \in 1..Len(op.emails) :
        SkippedByWatermark(NormalizeHeaderDate(op.emails[i].date), op.wmBefore)}

\* C21: a run with force=True does not use the watermark on file: whatever
\* the file holds, the run skips no email by the watermark and hands every
\* admitted email to extract_order.
C21_ForceIgnoresWatermark ==
    (ImportReturned /\ last.force)
        => /\ last.wmSkipped = {}
           /\ last.calls = Admitted(last.emails)

\* A forced run returned that handed to extract_order an email whose header
\* date is not later than the watermark on file.
C21_Witness ==
    /\ ImportReturned
    /\ last.force
    /\ last.calls \cap NotLaterThanStored(last) # {}

\* The orders a table holds: its rows without the row id and the two
\* timestamps of the clock.
StoredOrders(tbl) ==
    {[order_id |-> r.order_id, order_date |-> r.order_date,
      restaurant_name |-> r.restaurant_name, amount |-> r.amount,
      delivery_fee |-> r.delivery_fee, discount |-> r.discount,
      total_amount |-> r.total_amount, status |-> r.status,
      raw_email_body |-> r.raw_email_body, email_date |-> r.email_date]
        : r \in tbl}

\* The archives that hold the emails of an archive in another order.
Reorderings(emails) ==
    {[i \in 1..Len(emails) |-> emails[p[i]]] : p \in Permutations(1..Len(emails))}

C30_UnforcedLeavesStoredOrders ==
    [][/\ (last'.op = "import" /\ ~last'.force)
            => /\ rows \subseteq rows'
               /\ \A r \in rows' \ rows : r.order_id \notin OrderIdsOf(rows)
       /\ (last'.op = "insert_order" /\ last'.existed /\ ~last'.upsert)
            => /\ rows' = rows
               /\ ~last'.returned
               /\ last'.exc = "none"]_vars

\* insert_order was called with upsert=False on an order id the table held.
C30_Witness ==
    /\ last.op = "insert_order"
    /\ last.existed
    /\ ~last.upsert
    /\ rows # {}

(***************************************************************************)
(* Properties of extract_order (SpecExtract)                               *)
(***************************************************************************)
\* extract_order has been called on the input.
Extracted == output # NotRun

\* What the field extractors make of the input.
InputOrderId == ExtractOrderId(input.subject, input.body)
InputRestaurant == ExtractRestaurant(input.body, input.subject)
InputTotal == ExtractTotalAmount(input.body)
InputOrderDate == ExtractOrderDate(input.body, input.email_date)

\* The order id, the restaurant name and the total amount are extractable
\* and an order date is determinable.
InputComplete ==
    /\ InputOrderId.kind = "return" /\ InputOrderId.val # None
    /\ InputRestaurant.kind = "return" /\ InputRestaurant.val # None
    /\ InputTotal # None
    /\ InputOrderDate.kind = "return"

\* C8: extract_order raises nothing: whatever the input, also one on which a
\* field extractor or the Order constructor raises, the call returns (an
\* Order or None).
C8_ExtractOrderNeverRaises == Extracted => output.kind = "return"

\* extract_order returned on an input on which its try block raised.
C8_Witness ==
    /\ Extracted
    /\ output.kind = "return"
    /\ ExtractOrderTry(input.subject, input.body, input.email_date).kind = "raise"

\* C9: fail closed.  When the order id, the restaurant name or the total
\* amount cannot be extracted, or no order date can be determined (no date
\* in the body and no email date), extract_order returns None.
C9_FailClosed == (Extracted /\ ~InputComplete) => output = Returned(None)

\* extract_order returned None on an input whose order id and restaurant
\* name are extractable and whose total amount is not.
C9_Witness ==
    /\ Extracted
    /\ output = Returned(None)
    /\ InputOrderId.kind = "return" /\ InputOrderId.val # None
    /\ InputRestaurant.kind = "return" /\ InputRestaurant.val # None
    /\ InputTotal = None

\* What an Order built from the input carries.
CarriesInput(o) ==
    /\ o["order_id"] = Val(InputOrderId.val)
    /\ o["restaurant_name"] = Val(InputRestaurant.val)
    /\ o["total_amount"] = Val(InputTotal)
    /\ o["delivery_fee"] = ExtractDeliveryFee(input.body)
    /\ o["discount"] = ExtractDiscount(input.body)
    /\ o["status"] = "completed"
    /\ o["email_date"] = input.email_date
    /\ o["raw_email_body"] = Some(Slice(input.body.text, SnippetLimit))

\* C10: when the order id, the restaurant name and the total amount are
\* extractable and an order date is determinable, extract_order returns an
\* Order that carries those values, the extracted (or 0) delivery fee and
\* discount, status 'completed', the email date it was given and the
\* normalized text cut to 1000 characters.
C10_CompleteInputYieldsOrder ==
    (Extracted /\ InputComplete)
        => /\ output.kind = "return"
           /\ output.val # None
           /\ CarriesInput(Val(output.val))

\* extract_order was called on a complete input.
C10_Witness == Extracted /\ InputComplete

\* C11: on the sample email (subject 'Your Zomato order ORD123456 is
\* confirmed', body with the lines 'Order ID: ORD123456', 'Restaurant:
\* Dominoes Pizza', 'Total Amount: ₹440.00', 'Delivery Charges: ₹40.00',
\* 'Promo Discount: -₹50.00') extract_order returns an order with order id
\* ORD123456, restaurant 'Dominoes Pizza', total 440.00, delivery fee 40.00,
\* discount 50.00 and amount 450.00.
C11_SampleEmailYieldsOrder ==
    (Extracted /\ input \in SampleEmailInputs)
        => /\ output.kind = "return"
           /\ output.val # None
           /\ Val(output.val)["order_id"] = "ORD123456"
           /\ Val(output.val)["restaurant_name"] = "Dominoes Pizza"
           /\ Val(output.val)["total_amount"] = 44000
           /\ Val(output.val)["delivery_fee"] = 4000
           /\ Val(output.val)["discount"] = 5000
           /\ Val(output.val)["amount"] = 45000

\* extract_order was called on the sample email with its header date.
C11_Witness ==
    /\ Extracted
    /\ input \in SampleEmailInputs
    /\ input.email_date = Some(Aware(At(14, 29), IST))

\* The field extractors that come before the date in extract_order gave a
\* value, so the call went on to the next one.
IdAndNameFound ==
    /\ InputOrderId.kind = "return" /\ InputOrderId.val # None
    /\ InputRestaurant.kind = "return" /\ InputRestaurant.val # None

\* The stages of the order date on the input: a detailed span that a format
\* with a year parses; a day-month token that parses.
DetailedParsed ==
    /\ input.body.detailed # None
    /\ Val(input.body.detailed).fmt \in 1..LastYearFormat

SimpleParsed == input.body.simple # None /\ Val(input.body.simple).ok

\* C23: the order date is the detailed span's date when a format parses it;
\* else, when an email date is given and the day-month token parses, the
\* token's day and month in the email date's year; else the email date as it
\* was given; else the extraction fails.
C23_OrderDatePrecedence ==
    Extracted
        => /\ DetailedParsed
                => InputOrderDate = Returned(Some(Naive(Val(input.body.detailed).wall)))
           /\ (~DetailedParsed /\ SimpleParsed /\ input.email_date # None)
                => /\ InputOrderDate.kind = "return"
                   /\ ~Val(InputOrderDate.val).aware
                   /\ YearOf(Val(InputOrderDate.val)) = YearOf(Val(input.email_date))
                   /\ Val(InputOrderDate.val).wall % HalfHoursPerYear
                          = Val(input.body.simple).wall % HalfHoursPerYear
           /\ (~DetailedParsed /\ ~SimpleParsed /\ input.email_date # None)
                => InputOrderDate = Returned(input.email_date)
           /\ (~DetailedParsed /\ input.email_date = None)
                => InputOrderDate.kind = "raise"

\* extract_order reached the order date on an input whose detailed span and
\* day-month token both parse to different dates and whose email date is
\* given.
C23_Witness ==
    /\ Extracted
    /\ IdAndNameFound
    /\ InputTotal # None
    /\ DetailedParsed
    /\ SimpleParsed
    /\ input.email_date # None
    /\ Val(input.body.detailed).wall # Val(input.body.simple).wall

\* The Paid rule, and the Total rule, matched an amount that float() accepts.
PaidParsed == input.body.paid # None /\ Val(input.body.paid).ok
TotalParsed == input.body.total # None /\ Val(input.body.total).ok

Acceptable(c) == c # None /\ Val(c).len \in 3..119

\* C25: the restaurant name is the first acceptable candidate among the Pro
\* Plus subject rule, the body rule and the subject tail rule, a candidate
\* being acceptable when its length is more than 2 and less than 120; it is
\* None only when no candidate is acceptable.
C25_RestaurantPrecedence ==
    (Extracted /\ input.subject.isStr)
        => /\ InputRestaurant.kind = "return"
           /\ Acceptable(input.subject.proPlus)
                => InputRestaurant.val = Some(Val(input.subject.proPlus).name)
           /\ (~Acceptable(input.subject.proPlus) /\ Acceptable(input.body.thank))
                => InputRestaurant.val = Some(Val(input.body.thank).name)
           /\ (~Acceptable(input.subject.proPlus) /\ ~Acceptable(input.body.thank)
                 /\ Acceptable(input.subject.fromTail))
                => InputRestaurant.val = Some(Val(input.subject.fromTail).name)
           /\ (~Acceptable(input.subject.proPlus) /\ ~Acceptable(input.body.thank)
                 /\ ~Acceptable(input.subject.fromTail))
                => InputRestaurant.val = None

\* extract_order reached the restaurant on an input whose Pro Plus candidate
\* has 120 characters and whose two other candidates are acceptable.
C25_Witness ==
    /\ Extracted
    /\ InputOrderId.kind = "return" /\ InputOrderId.val # None
    /\ input.subject.proPlus # None
    /\ Val(input.subject.proPlus).len = 120
    /\ Acceptable(input.body.thank)
    /\ Acceptable(input.subject.fromTail)

\* C26: the order id is the label's token in the subject; else the label's
\* token in the body; else the token of 'order #<token>' in the subject; and
\* None when there is no label and no 'order #<token>'.
C26_OrderIdPrecedence ==
    (Extracted /\ input.subject.isStr)
        => /\ InputOrderId.kind = "return"
           /\ input.subject.idLabel # None => InputOrderId.val = input.subject.idLabel
           /\ (input.subject.idLabel = None /\ input.body.idLabel # None)
                => InputOrderId.val = input.body.idLabel
           /\ (input.subject.idLabel = None /\ input.body.idLabel = None
                 /\ input.subject.idHash)
                => InputOrderId.val = input.subject.idLoose
           /\ (input.subject.idLabel = None /\ input.body.idLabel = None
                 /\ ~input.subject.idHash)
                => InputOrderId.val = None

\* extract_order was called on an input without a label in which 'order' is
\* followed by a word and no '#'.
C26_Witness ==
    /\ Extracted
    /\ input.subject.isStr
    /\ input.subject.idLabel = None
    /\ input.body.idLabel = None
    /\ input.subject.idLoose # None
    /\ ~input.subject.idHash

(***************************************************************************)
(* Properties of the date normalization and the watermark file (SpecTime)  *)
(***************************************************************************)
\* C27: the normalization gives an aware datetime with offset zero; for a
\* naive input its reading is the input's reading less 5 hours 30 minutes
\* (11 half hours), for an aware input it denotes the input's instant.
C27_NormalizedToUtc ==
    output.kind = "normalize"
        => /\ Val(output.val).aware
           /\ Val(output.val).off = 0
           /\ ~input.aware => Val(output.val).wall = input.wall - 11
           /\ input.aware => Val(output.val).wall = input.wall - input.off

\* The normalization was applied to a naive datetime less than 5 hours 30
\* minutes into its year.
C27_Witness ==
    /\ output.kind = "normalize"
    /\ ~input.aware
    /\ YearOf(Val(output.val)) < YearOf(input)

\* C29: read_last_sync returns None for a file that is missing, empty or
\* unparsable, and a run that starts from None skips no email by the
\* watermark; after write_last_sync(t) it returns an aware datetime with
\* offset zero that denotes the instant of t (t's own reading when t is
\* naive).
C29_WatermarkRoundTrip ==
    output.kind = "read"
        => /\ syncFile \in {None, EmptyFile, UnparsableFile}
                => /\ output.val = None
                   /\ \A e \in ArchiveEmails :
                          ~SkippedByWatermark(NormalizeHeaderDate(e.date), output.val)
           /\ output.wrote
                => /\ output.val # None
                   /\ Val(output.val).aware
                   /\ Val(output.val).off = 0
                   /\ Val(output.val).wall
                          = IF input.aware THEN input.wall - input.off ELSE input.wall

\* read_last_sync was called after write_last_sync(t), t an aware datetime
\* of offset +05:30.
C29_Witness ==
    /\ output.kind = "read"
    /\ output.wrote
    /\ input.aware
    /\ input.off = IST

(***************************************************************************)
(* Properties of the text normalizer (SpecText)                            *)
(***************************************************************************)
\* C28 as stated: each of the four steps is idempotent, that is, applied to
\* the text it has just left it leaves that text as it is.
C28_EachStepIdempotent ==
    /\ output.step = "entities" => DecodeEntities(output.text) = output.text
    /\ output.step = "structural" => ReplaceStructuralTags(output.text) = output.text
    /\ output.step = "strip" => StripTags(output.text) = output.text
    /\ output.step = "collapse" => CollapseWhitespace(output.text) = output.text

\* C28 as amended: tag stripping and whitespace collapsing (with the trim)
\* are idempotent.
C28_StripAndCollapseIdempotent ==
    /\ output.step = "strip" => StripTags(output.text) = output.text
    /\ output.step = "collapse" => CollapseWhitespace(output.text) = output.text

\* Whitespace collapsing has left a text shorter than the one tag stripping
\* makes of the raw body, which is itself shorter than the raw body.
C28_Witness ==
    /\ output.step = "collapse"
    /\ Len(output.text) < Len(StripTags(input))
    /\ Len(StripTags(input)) < Len(input)

====
